---------------------------- MODULE Spec2Model ----------------------------
(***************************************************************************)
(* Wave excitation force providers of HydroChrono (src/src/wave_types.cpp):*)
(* NoWave, RegularWave and IrregularWaves.                                 *)
(*                                                                         *)
(* Numbers.  A C++ double is modelled by an exact rational <<n, d>> in     *)
(* lowest terms with d > 0, so that equal values are equal tuples.         *)
(* Floating-point rounding is not modelled.                                *)
(*                                                                         *)
(* Indices.  C++ vectors are sequences; At(s, i) reads the 0-based element *)
(* i.  A read outside the vector is undefined behaviour and is reported as *)
(* such by the operation that performs it.                                 *)
(***************************************************************************)
EXTENDS Integers, Sequences, FiniteSets, TLC

---------------------------------------------------------------------------
(* Exact rational arithmetic standing for double arithmetic.               *)

Abs(n) == IF n < 0 THEN -n ELSE n

RECURSIVE Gcd(_, _)
Gcd(a, b) == IF b = 0 THEN a ELSE Gcd(b, a % b)

Rat(n, d) ==
    IF d = 1 THEN <<n, 1>>
    ELSE LET s == IF d < 0 THEN -1 ELSE 1
             g == Gcd(Abs(n), Abs(d))
         IN  <<(s * n) \div g, (s * d) \div g>>

R(n) == <<n, 1>>

RAdd(a, b) == Rat(a[1] * b[2] + b[1] * a[2], a[2] * b[2])
RSub(a, b) == Rat(a[1] * b[2] - b[1] * a[2], a[2] * b[2])
RMul(a, b) == Rat(a[1] * b[1], a[2] * b[2])
RDiv(a, b) == Rat(a[1] * b[2], a[2] * b[1])
RLt(a, b) == a[1] * b[2] < b[1] * a[2]
RLe(a, b) == a[1] * b[2] <= b[1] * a[2]
RAbs(a) == <<Abs(a[1]), a[2]>>
RHalf(a) == Rat(a[1], 2 * a[2])
\* floor and ceil of a rational, as integers
RFloor(a) == a[1] \div a[2]
RCeil(a) == -((-a[1]) \div a[2])
\* static_cast<int>(x): truncation toward zero
RTrunc(a) == IF a[1] >= 0 THEN a[1] \div a[2] ELSE -((-a[1]) \div a[2])

RECURSIVE RSumTo(_, _)
RSumTo(s, n) == IF n = 0 THEN R(0) ELSE RAdd(RSumTo(s, n - 1), s[n])
RSum(s) == RSumTo(s, Len(s))

\* 0-based read of a vector
At(s, i) == s[i + 1]
InRange(s, i) == 0 <= i /\ i < Len(s)

(* cos.  Angles are carried in quarter turns (unit pi/2), so cos is exact  *)
(* at every integer argument: 1, 0, -1, 0.  Between two integers the value *)
(* is the chord of those exact values.                                     *)
CosQuarter(k) == CASE k % 4 = 0 -> R(1)
                   [] k % 4 = 2 -> R(-1)
                   [] OTHER -> R(0)

Cos(a) ==
    LET k == RFloor(a)
        fr == RSub(a, R(k))
    IN  RAdd(CosQuarter(k), RMul(fr, RSub(CosQuarter(k + 1), CosQuarter(k))))

(* Eigen::VectorXd::LinSpaced(size, low, high): size equally spaced values *)
(* from low to high; for size = 1 the single element is high; for size 0   *)
(* the vector is empty.                                                    *)
LinSpaced(size, low, high) ==
    IF size <= 0 THEN << >>
    ELSE IF size = 1 THEN <<high>>
    ELSE [i \in 1..size |->
            IF i = size THEN high
            ELSE RAdd(low, RMul(R(i - 1), RDiv(RSub(high, low), R(size - 1))))]


---------------------------------------------------------------------------
(* Bounds of the model.                                                    *)

\* bodies of a RegularWave or IrregularWaves provider: 1..MaxBodies
MaxBodies == 2
\* GetForceAtTime is called with t in 0..MaxQueryTime
MaxQueryTime == 4
\* simulation_duration_ is drawn from 0..MaxDuration
MaxDuration == 3
\* simulation_dt_ is drawn from 0..MaxDt (0: keep the native IRF sampling)
MaxDt == 3
\* frequency bins of the wave spectrum carried by the model
SpectrumBins == 1
\* bodies of a NoWave provider: 0..MaxNoWaveBodies
MaxNoWaveBodies == 8

\* degrees of freedom per body
NumDofs == 6
Dofs == 0..(NumDofs - 1)

VARIABLES
    mode,                             \* the WaveBase subclass constructed
    num_bodies_,
    wave_info_,                       \* the h5 data given to AddH5Data
    \* RegularWave
    regular_wave_amplitude_,
    regular_wave_omega_,
    excitation_force_mag_,
    excitation_force_phase_,
    \* IrregularWaves
    params,                           \* IrregularWaveParams, copied at construction
    ex_irf_sampled_,
    ex_irf_time_sampled_,
    ex_irf_width_sampled_,
    free_surface_time_sampled_,
    free_surface_elevation_sampled_,
    time_data_,
    spectrumCreated_,
    \* environment and control
    eta_file,                         \* the file at eta_file_path_
    h5,                               \* the h5 data the host will attach
    stage,                            \* "constructed", "ready", "failed", "crashed"
    result                            \* outcome of the last GetForceAtTime call

vars == <<mode, num_bodies_, wave_info_, regular_wave_amplitude_, regular_wave_omega_,
          excitation_force_mag_, excitation_force_phase_, params, ex_irf_sampled_,
          ex_irf_time_sampled_, ex_irf_width_sampled_, free_surface_time_sampled_,
          free_surface_elevation_sampled_, time_data_, spectrumCreated_, eta_file,
          h5, stage, result>>

regularVars == <<regular_wave_amplitude_, regular_wave_omega_,
                 excitation_force_mag_, excitation_force_phase_>>

irregularVars == <<params, ex_irf_sampled_, ex_irf_time_sampled_, ex_irf_width_sampled_,
                   free_surface_time_sampled_, free_surface_elevation_sampled_,
                   time_data_, spectrumCreated_>>

Bodies == 0..(num_bodies_ - 1)

NoResult == [op |-> "none", t |-> 0, st |-> "none", f |-> << >>, eta_val |-> << >>]

(* A value read from memory that was never written (an uninitialized local,*)
(* an element outside a vector).  Any double can be there; the model draws *)
(* one of these per call.                                                  *)
Indeterminate == {R(0), R(7)}

(* How undefined reads turn out in one call: junk is the value an          *)
(* indeterminate read yields; benign tells whether a read outside a vector *)
(* yields that value (TRUE) or ends the process (FALSE).                   *)
Undefined ==
    { [junk |-> v, benign |-> TRUE] : v \in Indeterminate }
    \cup { [junk |-> R(0), benign |-> FALSE] }

---------------------------------------------------------------------------
(* NoWave                                                                  *)

\* a NoWave that sizes its vector for one body, whatever num_bodies_ is
NoWaveForceOneBody(t) == [i \in 1..NumDofs |-> R(0)]

NoWaveForce(t) == [i \in 1..(num_bodies_ * NumDofs) |-> R(0)]

---------------------------------------------------------------------------
(* IrregularWaves: data attach                                             *)

\* widths that count the gap to the next sample only
WidthIRFForwardOnly(time_array) ==
    [ii \in 1..Len(time_array) |->
        IF ii < Len(time_array)
            THEN RAbs(RSub(time_array[ii + 1], time_array[ii]))
            ELSE R(0)]

\* widths of one body's time grid (the inner loop of CalculateWidthIRF)
WidthIRF(time_array) ==
    [ii \in 1..Len(time_array) |->
        RAdd(IF ii < Len(time_array)
                 THEN RHalf(RAbs(RSub(time_array[ii + 1], time_array[ii])))
                 ELSE R(0),
             IF ii > 1
                 THEN RHalf(RAbs(RSub(time_array[ii], time_array[ii - 1])))
                 ELSE R(0))]

\* the widths of every body, from the time grids given
CalculateWidthIRF(time_sampled) ==
    [b \in 1..Len(time_sampled) |-> WidthIRF(time_sampled[b])]

(* Eigen::SplineFitting<Spline<double,6>>::Interpolate(val_array, 3,       *)
(* t_old_scaled) evaluated at u, for one row.  The impulse responses of    *)
(* this model are affine in the sample index (IrfMatrices below) and have  *)
(* at least four samples; the degree-3 interpolating spline of such data   *)
(* over equally spaced parameters in [0, 1] is that affine function.       *)
SplineAt(row, u) ==
    RAdd(row[1], RMul(u, RSub(row[Len(row)], row[1])))

\* a ResampleIRF that leaves the widths of the old grid in place
ResampleIRFStaleWidths(irf, dt) ==
    LET time == [b \in 1..Len(irf.time) |->
                    LinSpaced(RCeil(RDiv(RSub(irf.time[b][Len(irf.time[b])],
                                              irf.time[b][1]), dt)),
                              irf.time[b][1], irf.time[b][Len(irf.time[b])])]
    IN  [time  |-> time,
         width |-> irf.width,
         val   |-> [b \in 1..Len(irf.val) |->
                       [d \in 1..NumDofs |->
                           [i \in 1..Len(time[b]) |-> irf.val[b][d][1]]]]]

\* step 1 of ResampleIRF for one body: the new time grid
ResampleTime(time_array_old, dt) ==
    LET t0 == At(time_array_old, 0)
        t1 == At(time_array_old, Len(time_array_old) - 1)
    IN  LinSpaced(RCeil(RDiv(RSub(t1, t0), dt)), t0, t1)

\* step 3 of ResampleIRF for one body: the new values
ResampleVals(val_array, new_size) ==
    LET t_new_scaled == LinSpaced(new_size, R(0), R(1))
    IN  [d \in 1..NumDofs |->
            [i \in 1..new_size |-> SplineAt(val_array[d], t_new_scaled[i])]]

(* ResampleIRF(dt): every body's time grid, widths and values replaced.    *)
(* irf is [time, width, val], each a sequence over the bodies.             *)
ResampleIRF(irf, dt) ==
    LET time == [b \in 1..Len(irf.time) |-> ResampleTime(irf.time[b], dt)]
    IN  [time  |-> time,
         width |-> CalculateWidthIRF(time),
         val   |-> [b \in 1..Len(irf.val) |-> ResampleVals(irf.val[b], Len(time[b]))]]

(* One line of the elevation file is a sequence of tokens: numbers         *)
(* [num |-> r] and single characters [chr |-> c].  "ss >> time >>          *)
(* delimiter >> eta" needs a number, any character and a number, in that   *)
(* order; what follows them on the line is not read.                       *)
IsNum(tok) == "num" \in DOMAIN tok
IsChr(tok) == "chr" \in DOMAIN tok

ParseLine(line) ==
    IF Len(line) >= 3 /\ IsNum(line[1]) /\ IsChr(line[2]) /\ IsNum(line[3])
           /\ line[2].chr = ":"
    THEN [ok |-> TRUE, time |-> line[1].num, eta |-> line[3].num]
    ELSE [ok |-> FALSE, time |-> R(0), eta |-> R(0)]

\* index (1-based) of the first line that does not parse, or Len + 1
RECURSIVE FirstBadLine(_, _)
FirstBadLine(lines, i) ==
    IF i > Len(lines) \/ ~ParseLine(lines[i]).ok THEN i
    ELSE FirstBadLine(lines, i + 1)

(* ReadEtaFromFile: the samples appended to time_data_ and                 *)
(* free_surface_elevation_sampled_, and whether it threw.                  *)
ReadEtaFromFile(file) ==
    IF ~file.exists
    THEN [threw |-> TRUE, time |-> << >>, eta |-> << >>]
    ELSE LET n == FirstBadLine(file.lines, 1) - 1
         IN  [threw |-> n < Len(file.lines),
              time  |-> [i \in 1..n |-> ParseLine(file.lines[i]).time],
              eta   |-> [i \in 1..n |-> ParseLine(file.lines[i]).eta]]

(* FreeSurfaceElevation: eta[j] is the sum over the spectrum's bins of      *)
(* sqrt_A[i] * cos(time_index[j] * omegas[i] + phases[i]).  sqrt, exp and  *)
(* the mt19937 draw lie outside exact arithmetic: bin i carries the        *)
(* amplitude, angular frequency and seeded phase given by the three        *)
(* operators below, and the superposition is computed as in the code.      *)
ComponentAmplitude(par, i) == RDiv(par.wave_height_, R(2 * i))
ComponentOmega(i) == Rat(i, 3)
ComponentPhase(seed, i) == R((seed + i) % 4)

FreeSurfaceElevation(time_index, par) ==
    [j \in 1..Len(time_index) |->
        RSum([i \in 1..SpectrumBins |->
                RMul(ComponentAmplitude(par, i),
                     Cos(RAdd(RMul(time_index[j], ComponentOmega(i)),
                              ComponentPhase(par.seed_, i))))])]

RMin(a, b) == IF RLt(b, a) THEN b ELSE a
RMax(a, b) == IF RLt(a, b) THEN b ELSE a

\* the loop of lines 476-489 over bodies 1..n: <<t_irf_min, t_irf_max>>
RECURSIVE IrfSupport(_, _)
IrfSupport(time_sampled, n) ==
    IF n = 0 THEN <<R(0), R(0)>>
    ELSE LET prev  == IrfSupport(time_sampled, n - 1)
             first == At(time_sampled[n], 0)
             last  == At(time_sampled[n], Len(time_sampled[n]) - 1)
         IN  <<RMin(RMin(prev[1], first), last), RMax(RMax(prev[2], first), last)>>

\* the ramp of lines 509-517 applied to the samples that exist
ApplyRamp(eta, par) ==
    IF RLt(R(0), par.ramp_duration_)
    THEN LET ramp_timesteps == RTrunc(RDiv(par.ramp_duration_, par.simulation_dt_)) + 1
             ramp == LinSpaced(ramp_timesteps, R(0), R(1))
         IN  [i \in 1..Len(eta) |->
                 IF i <= Len(ramp) THEN RMul(eta[i], ramp[i]) ELSE eta[i]]
    ELSE eta

\* whether the ramp loop writes past the end of the elevation vector
RampOverrun(eta, par) ==
    /\ RLt(R(0), par.ramp_duration_)
    /\ RTrunc(RDiv(par.ramp_duration_, par.simulation_dt_)) + 1 > Len(eta)

(* CreateFreeSurfaceElevation, for simulation_dt_ > 0: the history's time  *)
(* grid and elevation, and whether the ramp overran the vector.            *)
CreateFreeSurfaceElevation(par, time_sampled) ==
    LET num_timesteps == RTrunc(RDiv(par.simulation_duration_, par.simulation_dt_)) + 1
        support    == IrfSupport(time_sampled, Len(time_sampled))
        t_irf_min  == support[1]
        t_irf_max  == support[2]
        time_array == LinSpaced(num_timesteps, R(0),
                          RAdd(par.simulation_duration_,
                               RMul(R(2), RSub(t_irf_max, t_irf_min))))
        eta        == FreeSurfaceElevation(time_array, par)
    IN  [time    |-> [ii \in 1..Len(time_array) |-> RSub(time_array[ii], t_irf_max)],
         eta     |-> ApplyRamp(eta, par),
         overrun |-> RampOverrun(eta, par)]

(* InitializeIRFVectors, as called by AddH5Data(info): the provider's      *)
(* fields when it returns, and how it ended: "ready" (returned), "failed"  *)
(* (ReadEtaFromFile threw), "zero_step" (the step count is the cast of a   *)
(* division by zero) or "overrun" (the ramp was written past the end of    *)
(* the elevation vector); the last two are undefined behaviour.            *)
InitializeIRFVectors(par, info, file) ==
    LET native == [time  |-> [b \in 1..Len(info) |-> info[b].excitation_irf_time],
                   width |-> CalculateWidthIRF(
                                 [b \in 1..Len(info) |-> info[b].excitation_irf_time]),
                   val   |-> [b \in 1..Len(info) |-> info[b].excitation_irf_matrix]]
        irf    == IF RLt(R(0), par.simulation_dt_)
                  THEN ResampleIRF(native, par.simulation_dt_)
                  ELSE native
        \* spectrumCreated_ is written by the two branches that complete only
        base   == [irf |-> irf, fs_time |-> << >>, fs_eta |-> << >>, time_data |-> << >>,
                   spectrumCreated |-> spectrumCreated_, end |-> "ready"]
    IN  IF par.eta_file_path_ # ""
        THEN LET rd == ReadEtaFromFile(file)
             IN  [base EXCEPT !.fs_eta = rd.eta, !.time_data = rd.time,
                              !.spectrumCreated = IF rd.threw THEN spectrumCreated_
                                                  ELSE FALSE,
                              !.end = IF rd.threw THEN "failed" ELSE "ready"]
        ELSE IF par.wave_height_ # R(0) /\ par.wave_period_ # R(0)
        THEN IF par.simulation_dt_ = R(0)
             THEN [base EXCEPT !.end = "zero_step"]
             ELSE LET fs == CreateFreeSurfaceElevation(par, irf.time)
                  IN  [base EXCEPT !.fs_time = fs.time, !.fs_eta = fs.eta,
                                   !.spectrumCreated = TRUE,
                                   !.end = IF fs.overrun THEN "overrun" ELSE "ready"]
        ELSE base

---------------------------------------------------------------------------
(* IrregularWaves: force evaluation                                        *)

(* get_lower_index(value, ticks) of hydroc/helper.h, called only with      *)
(* ticks.front() < value < ticks.back(): the 0-based index of the last     *)
(* tick that is <= value.                                                  *)
get_lower_index(value, ticks) ==
    CHOOSE i \in 0..(Len(ticks) - 1) :
        /\ RLe(At(ticks, i), value)
        /\ \A k \in 0..(Len(ticks) - 1) : RLe(At(ticks, k), value) => k <= i

(* A read of free_surface_time_sampled_[i].  Outside the vector the read   *)
(* is undefined: it yields the call's indeterminate value, or brings the   *)
(* process down (see ExcitationConvolution).                               *)
HistoryTime(i, junk) ==
    IF InRange(free_surface_time_sampled_, i) THEN At(free_surface_time_sampled_, i)
    ELSE junk

\* lines 563-565: while (free_surface_time_sampled_[idx] > t_tau) idx -= 1
RECURSIVE WalkBack(_, _, _)
WalkBack(idx, t_tau, junk) ==
    IF InRange(free_surface_time_sampled_, idx) /\ RLt(t_tau, HistoryTime(idx, junk))
    THEN WalkBack(idx - 1, t_tau, junk)
    ELSE idx

\* an initial cursor that starts on the last sample instead of the last pair
InitialIndexOnLast(t_tau, tmin, tmax) ==
    IF RLe(t_tau, tmin) THEN 0
    ELSE IF RLe(tmax, t_tau) THEN Len(free_surface_time_sampled_) - 1
    ELSE get_lower_index(t_tau, free_surface_time_sampled_)

\* the cursor's initial value, lines 545-555
InitialIndex(t_tau, tmin, tmax) ==
    IF RLe(t_tau, tmin) THEN 0
    ELSE IF RLe(tmax, t_tau) THEN Len(free_surface_time_sampled_) - 2
    ELSE get_lower_index(t_tau, free_surface_time_sampled_)

(* The elevation that line 592 multiplies into the sum, for a lag inside   *)
(* the window with the cursor at idx: the outer eta_val.  The interior     *)
(* branch assigns its interpolated value to a second, inner eta_val, so    *)
(* the outer one is read uninitialized there.  "throw" stands for the      *)
(* 'wrong tau value' exception.                                            *)
EtaVal(idx, t_tau, junk) ==
    LET t1 == HistoryTime(idx, junk)
        t2 == HistoryTime(idx + 1, junk)
    IN  IF t_tau = t1 THEN [throw |-> FALSE, eta_val |-> HistoryTime(idx, junk)]
        ELSE IF t_tau = t2 THEN [throw |-> FALSE, eta_val |-> HistoryTime(idx + 1, junk)]
        ELSE IF RLt(t1, t_tau) /\ RLt(t_tau, t2) THEN [throw |-> FALSE, eta_val |-> junk]
        ELSE [throw |-> TRUE, eta_val |-> junk]

(* The loop of lines 558-602 from sample j on.  Returns how the call ends  *)
(* ("ok", "error" for a throw, "crashed"), the sum, and the eta_val used   *)
(* for each sample so far.  benign: whether a read outside a vector        *)
(* yields a value (TRUE) or ends the process (FALSE).                      *)
RECURSIVE ConvolutionLoop(_, _, _, _, _, _, _, _, _)
ConvolutionLoop(body, dof, time, j, idx, f_ex, etas, junk, benign) ==
    LET irf_time_array  == At(ex_irf_time_sampled_, body)
        irf_val_mat     == At(ex_irf_sampled_, body)
        irf_width_array == At(ex_irf_width_sampled_, body)
        tmin == HistoryTime(0, junk)
        tmax == HistoryTime(Len(free_surface_time_sampled_) - 1, junk)
    IN  IF j >= Len(irf_time_array) THEN [st |-> "ok", f |-> f_ex, etas |-> etas]
        ELSE
        LET tau   == At(irf_time_array, j)
            t_tau == RSub(time, tau)
        IN  IF RLe(tmin, t_tau) /\ RLe(t_tau, tmax)
            THEN LET idx2 == WalkBack(idx, t_tau, junk)
                     ev   == EtaVal(idx2, t_tau, junk)
                 IN  IF ~benign /\ ~(InRange(free_surface_time_sampled_, idx2)
                                     /\ InRange(free_surface_time_sampled_, idx2 + 1))
                     THEN [st |-> "crashed", f |-> f_ex, etas |-> etas]
                     ELSE IF ev.throw
                     THEN [st |-> "error", f |-> f_ex, etas |-> etas]
                     ELSE ConvolutionLoop(body, dof, time, j + 1, idx2,
                              RAdd(f_ex, RMul(RMul(At(At(irf_val_mat, dof), j), ev.eta_val),
                                              At(irf_width_array, j))),
                              Append(etas, ev.eta_val), junk, benign)
            ELSE [st |-> "error", f |-> f_ex, etas |-> etas]

ExcitationConvolution(body, dof, time, junk, benign) ==
    IF ~benign /\ free_surface_time_sampled_ = << >>
    THEN [st |-> "crashed", f |-> R(0), etas |-> << >>]
    ELSE LET tmin == HistoryTime(0, junk)
             tmax == HistoryTime(Len(free_surface_time_sampled_) - 1, junk)
             t_tau == RSub(time, At(At(ex_irf_time_sampled_, body), 0))
         IN  ConvolutionLoop(body, dof, time, 0, InitialIndex(t_tau, tmin, tmax),
                             R(0), << >>, junk, benign)

(* The cursor idx with which the samples of lag j (0-based) are read, in   *)
(* a convolution of the body (0-based) at the time given whose lags        *)
(* 0..j are all inside the window: the initial index walked back for the   *)
(* lags 0..j in turn.                                                      *)
RECURSIVE CursorAt(_, _, _, _)
CursorAt(body, time, j, junk) ==
    LET irf_time_array == At(ex_irf_time_sampled_, body)
        tmin == HistoryTime(0, junk)
        tmax == HistoryTime(Len(free_surface_time_sampled_) - 1, junk)
        from == IF j = 0
                THEN InitialIndex(RSub(time, At(irf_time_array, 0)), tmin, tmax)
                ELSE CursorAt(body, time, j - 1, junk)
    IN  WalkBack(from, RSub(time, At(irf_time_array, j)), junk)

(* IrregularWaves::GetForceAtTime from slot k (= 6 * body + dof) on: the   *)
(* first convolution that does not return ends the call and no vector is   *)
(* returned.  eta_val records, per body, the elevations its convolution    *)
(* used (they do not depend on the dof).                                   *)
RECURSIVE IrregularForceLoop(_, _, _, _, _, _)
IrregularForceLoop(k, t, f, etas, junk, benign) ==
    IF k >= num_bodies_ * NumDofs
    THEN [op |-> "GetForceAtTime", t |-> t, st |-> "ok", f |-> f, eta_val |-> etas]
    ELSE LET body == k \div NumDofs
             dof  == k % NumDofs
             c    == ExcitationConvolution(body, dof, R(t), junk, benign)
         IN  IF c.st # "ok"
             THEN [op |-> "GetForceAtTime", t |-> t, st |-> c.st, f |-> << >>,
                   eta_val |-> etas]
             ELSE IrregularForceLoop(k + 1, t, Append(f, c.f),
                      IF dof = 0 THEN Append(etas, c.etas) ELSE etas, junk, benign)

IrregularForce(t, junk, benign) == IrregularForceLoop(0, t, << >>, << >>, junk, benign)

---------------------------------------------------------------------------
(* RegularWave                                                             *)

GetOmegaDelta(info) ==
    LET omega_max == At(info[1].freq_list, Len(info[1].freq_list) - 1)
        num_freqs == R(Len(info[1].freq_list))
    IN  RDiv(omega_max, num_freqs)

(* excitation_mag_matrix(i, 0, k) and excitation_phase_matrix(i, 0, k) of  *)
(* body b: a read outside the tensor is undefined and yields junk.         *)
TensorAt(matrix, i, k, junk) ==
    IF InRange(At(matrix, i), k) THEN At(At(matrix, i), k) ELSE junk

GetExcitationMagInterp(info, b, i, freq_index_des, junk) ==
    LET freq_interp_val    == RSub(freq_index_des, R(RFloor(freq_index_des)))
        excitationMagFloor == TensorAt(At(info, b).excitation_mag_matrix, i,
                                       RFloor(freq_index_des), junk)
        excitationMagCeil  == TensorAt(At(info, b).excitation_mag_matrix, i,
                                       RFloor(freq_index_des) + 1, junk)
    IN  RAdd(RMul(freq_interp_val, RSub(excitationMagCeil, excitationMagFloor)),
             excitationMagFloor)

GetExcitationPhaseInterp(info, b, i, freq_index_des, junk) ==
    LET freq_interp_val      == RSub(freq_index_des, R(RFloor(freq_index_des)))
        excitationPhaseFloor == TensorAt(At(info, b).excitation_phase_matrix, i,
                                         RFloor(freq_index_des), junk)
        excitationPhaseCeil  == TensorAt(At(info, b).excitation_phase_matrix, i,
                                         RFloor(freq_index_des) + 1, junk)
    IN  RAdd(RMul(freq_interp_val, RSub(excitationPhaseCeil, excitationPhaseFloor)),
             excitationPhaseFloor)

\* the fractional bin index of line 35
FreqIndexDes(info, omega) == RSub(RDiv(omega, GetOmegaDelta(info)), R(1))

\* whether Initialize reads a bin outside body b's table
BinsOutOfRange(info, omega) ==
    \E b \in 0..(Len(info) - 1) :
        LET k == RFloor(FreqIndexDes(info, omega))
        IN  ~(InRange(At(info, b).freq_list, k) /\ InRange(At(info, b).freq_list, k + 1))

\* slot 6b + rowEx of the vector GetForceAtTime returns (lines 57-58)
RegularSlot(b, rowEx, t) ==
    LET body_offset == 6 * b
    IN  RMul(RMul(At(excitation_force_mag_, body_offset + rowEx), regular_wave_amplitude_),
             Cos(RAdd(RMul(regular_wave_omega_, R(t)),
                      At(excitation_force_phase_, rowEx))))

RegularForce(t) ==
    [k \in 1..(num_bodies_ * 6) |-> RegularSlot((k - 1) \div 6, (k - 1) % 6, t)]

---------------------------------------------------------------------------
(* Inputs                                                                  *)

Vec(s) == [i \in 1..Len(s) |-> R(s[i])]

\* impulse response matrices: row d is affine in the sample index
IrfMatrix(n, slope) ==
    [d \in 1..NumDofs |-> [i \in 1..n |-> R(d + slope * (i - 1))]]

\* the excitation IRF data of one body, as read from the h5 file
IrfBody(which) ==
    IF which = 0
    THEN [excitation_irf_time   |-> Vec(<<0, 1, 2, 3>>),
          excitation_irf_matrix |-> IrfMatrix(4, 1)]
    ELSE IF which = 1
    THEN [excitation_irf_time   |-> Vec(<<-2, -1, 0, 1>>),
          excitation_irf_matrix |-> IrfMatrix(4, 0)]
    ELSE [excitation_irf_time   |-> Vec(<<-1, 0, 2, 3>>),
          excitation_irf_matrix |-> IrfMatrix(4, 1)]

(* One body with each of the three data sets, and 2..MaxBodies bodies      *)
(* alternating between the first two.                                      *)
IrregularH5 ==
    { <<IrfBody(which)>> : which \in 0..2 }
    \cup { [b \in 1..n |-> IrfBody(b % 2)] : n \in 2..MaxBodies }

Num(n) == [num |-> R(n)]
Chr(c) == [chr |-> c]

NoFile == [exists |-> FALSE, lines |-> << >>]

EtaFiles ==
    { NoFile,
      [exists |-> TRUE,
       lines  |-> << <<Num(0), Chr(":"), Num(1)>>, <<Num(1), Chr(":"), Num(3)>>,
                     <<Num(2), Chr(":"), Num(2)>> >>],
      [exists |-> TRUE,
       lines  |-> << <<Num(0), Chr(":"), Num(1)>>, <<Num(1), Chr(";"), Num(3)>>,
                     <<Num(2), Chr(":"), Num(2)>> >>],
      \* an empty second line
      [exists |-> TRUE,
       lines  |-> << <<Num(0), Chr(":"), Num(1)>>, << >>,
                     <<Num(2), Chr(":"), Num(2)>> >>],
      \* text after the elevation on the second line: "1 : 3 : 9"
      [exists |-> TRUE,
       lines  |-> << <<Num(0), Chr(":"), Num(1)>>,
                     <<Num(1), Chr(":"), Num(3), Chr(":"), Num(9)>>,
                     <<Num(2), Chr(":"), Num(2)>> >>] }

(* IrregularWaveParams.  The elevation comes from a file, from wave height *)
(* and period, or from neither.  Simulation duration and ramp are read     *)
(* only when it is synthesized and vary only then; the other two sources   *)
(* are taken without resampling and with a unit step.                      *)
ParamsOf(path, hs, tp, dt, dur, ramp) ==
    [eta_file_path_       |-> path,
     wave_height_         |-> R(hs),
     wave_period_         |-> R(tp),
     simulation_dt_       |-> R(dt),
     simulation_duration_ |-> R(dur),
     ramp_duration_       |-> R(ramp),
     seed_                |-> 1]

IrregularParams ==
    { ParamsOf("eta.txt", 2, 8, dt, MaxDuration, 0) : dt \in 0..1 }
    \cup
    { ParamsOf("", hp[1], hp[2], dt, MaxDuration, 0) :
        hp \in { <<0, 8>>, <<2, 0>> }, dt \in 0..1 }
    \cup
    { ParamsOf("", 2, 8, dt, dur, 0) : dt \in 0..MaxDt, dur \in 0..MaxDuration }
    \cup
    { ParamsOf("", 2, 8, 1, dur, 2) : dur \in 0..MaxDuration }

NoParams == [eta_file_path_ |-> "", wave_height_ |-> R(0), wave_period_ |-> R(0),
             simulation_dt_ |-> R(0), simulation_duration_ |-> R(0),
             ramp_duration_ |-> R(0), seed_ |-> 0]

QueryTimes == 0..MaxQueryTime
\* NoWave ignores t: it is also called with negative and later times
NoWaveTimes == (-MaxQueryTime)..(2 * MaxQueryTime)

\* frequency-domain tables of one body: [dof][bin]
RegularTable(m0, mk, p0, pd, pk) ==
    [freq_list               |-> Vec(<<1, 2, 3, 4>>),
     excitation_mag_matrix   |-> [d \in 1..NumDofs |-> [k \in 1..4 |-> R(m0 + mk * (k - 1))]],
     excitation_phase_matrix |-> [d \in 1..NumDofs |->
                                     [k \in 1..4 |-> R(p0 + pd * (d - 1) + pk * (k - 1))]]]

RegularBody(which) ==
    IF which = 0 THEN RegularTable(1, 0, 0, 0, 0) ELSE RegularTable(1, 1, 1, 1, 2)

\* n bodies, alternating between the two tables, starting with either
RegularH5 ==
    { [b \in 1..n |-> RegularBody((first + b) % 2)] : n \in 1..MaxBodies, first \in 0..1 }

RegularOmegas == { Rat(1, 2), R(1), Rat(5, 2), R(4) }
RegularAmplitudes == { R(2), Rat(1, 2) }

---------------------------------------------------------------------------
(* Initial states: a provider just constructed.                            *)

(* spectrumCreated_ of a provider just constructed.  The constructor's     *)
(* initializer list does not name it; its declaration (hydroc/wave_types.h)*)
(* gives it its first value: no spectrum exists before data attach.        *)
SpectrumCreatedAtConstruction == FALSE

InitNoWave ==
    /\ mode = "NoWave"
    /\ num_bodies_ \in 0..MaxNoWaveBodies
    /\ h5 = << >>
    /\ regular_wave_amplitude_ = R(0)
    /\ regular_wave_omega_ = R(0)
    /\ params = NoParams
    /\ eta_file = NoFile
    /\ stage = "ready"

InitRegular ==
    /\ mode = "Regular"
    /\ h5 \in RegularH5
    /\ num_bodies_ = Len(h5)
    /\ regular_wave_amplitude_ \in RegularAmplitudes
    /\ regular_wave_omega_ \in RegularOmegas
    /\ params = NoParams
    /\ eta_file = NoFile
    /\ stage = "constructed"

InitIrregular ==
    /\ mode = "Irregular"
    /\ h5 \in IrregularH5
    /\ num_bodies_ = Len(h5)
    /\ regular_wave_amplitude_ = R(0)
    /\ regular_wave_omega_ = R(0)
    /\ params \in IrregularParams
    /\ eta_file \in (IF params.eta_file_path_ = "" THEN {NoFile} ELSE EtaFiles)
    /\ stage = "constructed"

Init ==
    /\ InitNoWave \/ InitRegular \/ InitIrregular
    /\ wave_info_ = << >>
    /\ excitation_force_mag_ = << >>
    /\ excitation_force_phase_ = << >>
    /\ ex_irf_sampled_ = << >>
    /\ ex_irf_time_sampled_ = << >>
    /\ ex_irf_width_sampled_ = << >>
    /\ free_surface_time_sampled_ = << >>
    /\ free_surface_elevation_sampled_ = << >>
    /\ time_data_ = << >>
    /\ spectrumCreated_ = SpectrumCreatedAtConstruction
    /\ result = NoResult

---------------------------------------------------------------------------
(* Operations                                                              *)

NoWaveGetForceAtTime(t) ==
    /\ mode = "NoWave"
    /\ result' = [op |-> "GetForceAtTime", t |-> t, st |-> "ok", f |-> NoWaveForce(t),
                  eta_val |-> << >>]
    /\ UNCHANGED <<mode, num_bodies_, wave_info_, regularVars, irregularVars,
                   eta_file, h5, stage>>

RegularWaveAddH5Data ==
    /\ mode = "Regular"
    /\ stage = "constructed"
    /\ wave_info_' = h5
    /\ stage' = "attached"
    /\ UNCHANGED <<mode, num_bodies_, regularVars, irregularVars, eta_file, h5, result>>

(* RegularWave::Initialize.  A bin read outside a table is undefined: the  *)
(* process ends, or the read yields an indeterminate value.                *)
RegularWaveInitialize ==
    /\ mode = "Regular"
    /\ stage = "attached"
    /\ \E u \in Undefined :
         LET freq_index_des == FreqIndexDes(wave_info_, regular_wave_omega_)
             junk == u.junk
         IN  IF BinsOutOfRange(wave_info_, regular_wave_omega_) /\ ~u.benign
             THEN /\ stage' = "crashed"
                  /\ UNCHANGED <<excitation_force_mag_, excitation_force_phase_>>
             ELSE /\ stage' = "ready"
                  /\ excitation_force_mag_' =
                        [k \in 1..(6 * num_bodies_) |->
                            GetExcitationMagInterp(wave_info_, (k - 1) \div 6, (k - 1) % 6,
                                                   freq_index_des, junk)]
                  /\ excitation_force_phase_' =
                        [k \in 1..(6 * num_bodies_) |->
                            GetExcitationPhaseInterp(wave_info_, (k - 1) \div 6, (k - 1) % 6,
                                                     freq_index_des, junk)]
    /\ UNCHANGED <<mode, num_bodies_, wave_info_, regular_wave_amplitude_,
                   regular_wave_omega_, irregularVars, eta_file, h5, result>>

RegularWaveGetForceAtTime(t) ==
    /\ mode = "Regular"
    /\ stage = "ready"
    /\ result' = [op |-> "GetForceAtTime", t |-> t, st |-> "ok", f |-> RegularForce(t),
                  eta_val |-> << >>]
    /\ UNCHANGED <<mode, num_bodies_, wave_info_, regularVars, irregularVars,
                   eta_file, h5, stage>>

(* IrregularWaves::AddH5Data: wave_info_ is set and InitializeIRFVectors   *)
(* runs.  After undefined behaviour the process either ends or goes on     *)
(* (the ramp's stray writes having landed outside the elevation vector).   *)
IrregularWavesAddH5Data ==
    /\ mode = "Irregular"
    /\ stage = "constructed"
    /\ wave_info_' = h5
    /\ LET r == InitializeIRFVectors(params, h5, eta_file)
       IN  /\ ex_irf_sampled_' = r.irf.val
           /\ ex_irf_time_sampled_' = r.irf.time
           /\ ex_irf_width_sampled_' = r.irf.width
           /\ free_surface_time_sampled_' = r.fs_time
           /\ free_surface_elevation_sampled_' = r.fs_eta
           /\ time_data_' = r.time_data
           /\ spectrumCreated_' = r.spectrumCreated
           /\ \/ r.end \in {"ready", "failed"} /\ stage' = r.end
              \/ r.end \in {"zero_step", "overrun"} /\ stage' = "crashed"
              \/ r.end = "zero_step" /\ stage' = "failed"
              \/ r.end = "overrun" /\ stage' = "ready"
    /\ UNCHANGED <<mode, num_bodies_, regularVars, params, eta_file, h5, result>>

(* IrregularWaves::GetForceAtTime(t) on a provider whose data attach has   *)
(* returned.                                                               *)
IrregularWavesGetForceAtTime(t) ==
    /\ mode = "Irregular"
    /\ stage = "ready"
    /\ \E u \in Undefined :
         LET r == IrregularForce(t, u.junk, u.benign)
         IN  /\ result' = r
             /\ stage' = IF r.st = "crashed" THEN "crashed" ELSE stage
    /\ UNCHANGED <<mode, num_bodies_, wave_info_, regularVars, irregularVars,
                   eta_file, h5>>

(* IrregularWaves::GetSpectrum, on any provider that exists (before data   *)
(* attach, after it, after an attach that threw): throws unless            *)
(* spectrumCreated_, else returns spectrum_, which no code assigns.         *)
\* a GetSpectrum without the spectrumCreated_ test
GetSpectrumUnguarded ==
    [op |-> "GetSpectrum", t |-> 0, st |-> "ok", f |-> << >>, eta_val |-> << >>]

GetSpectrum ==
    IF ~spectrumCreated_
    THEN [op |-> "GetSpectrum", t |-> 0, st |-> "error", f |-> << >>, eta_val |-> << >>]
    ELSE [op |-> "GetSpectrum", t |-> 0, st |-> "ok", f |-> << >>, eta_val |-> << >>]

IrregularWavesGetSpectrum ==
    /\ mode = "Irregular"
    /\ stage # "crashed"
    /\ result' = GetSpectrum
    /\ UNCHANGED <<mode, num_bodies_, wave_info_, regularVars, irregularVars,
                   eta_file, h5, stage>>

(* CreateFreeSurface3DPts(eta, t_vec): two points per element of t_vec, at  *)
(* y = -10 and y = 10; eta[i] is read for every i < t_vec.size(), beyond    *)
(* the end of eta too (junk there).                                        *)
CreateFreeSurface3DPts(eta, t_vec, junk) ==
    [k \in 1..(2 * Len(t_vec)) |->
        LET i == (k - 1) \div 2
            t == RMul(R(-1), At(t_vec, i))
            z == IF InRange(eta, i) THEN At(eta, i) ELSE junk
        IN  <<t, IF (k - 1) % 2 = 0 THEN R(-10) ELSE R(10), z>>]

(* CreateFreeSurfaceTriangles(eta_size): two triangles for every           *)
(* i < eta_size / 2 - 1, in size_t arithmetic (a loop bound of 0 - 1 is    *)
(* the largest size_t; that case is SetUpWaveMesh's, below).               *)
CreateFreeSurfaceTriangles(eta_size) ==
    [k \in 1..(2 * (eta_size \div 2 - 1)) |->
        LET i == (k - 1) \div 2
        IN  IF (k - 1) % 2 = 0 THEN <<2 * i, 2 * i + 1, 2 * i + 3>>
                               ELSE <<2 * i, 2 * i + 3, 2 * i + 2>>]

(* SetUpWaveMesh: the point and triangle lists handed to                   *)
(* WriteFreeSurfaceMeshObj.  f.n is time_index.size(), f.samples the size  *)
(* of the elevation read.  A zero simulation_dt_ makes num_timesteps the   *)
(* cast of a non-finite double, and an elevation shorter than time_index   *)
(* is read past its end: both undefined.  With one time step the triangle  *)
(* loop pushes until allocation fails and throws.                          *)
SetUpWaveMesh(junk, benign) ==
    LET none == [n |-> 0, samples |-> 0, points |-> << >>, triangles |-> << >>]
        mk(st, f) == [op |-> "SetUpWaveMesh", t |-> 0, st |-> st, f |-> f,
                      eta_val |-> << >>]
    IN  IF params.simulation_dt_ = R(0)
        THEN mk(IF benign THEN "error" ELSE "crashed", none)
        ELSE LET num_timesteps ==
                     RTrunc(RDiv(params.simulation_duration_, params.simulation_dt_)) + 1
                 time_index == LinSpaced(num_timesteps, R(0), params.simulation_duration_)
             IN  IF Len(free_surface_elevation_sampled_) < Len(time_index) /\ ~benign
                 THEN mk("crashed", none)
                 ELSE IF Len(time_index) \div 2 - 1 < 0
                 THEN mk("error", none)
                 ELSE mk("ok",
                         [n         |-> Len(time_index),
                          samples   |-> Len(free_surface_elevation_sampled_),
                          points    |-> CreateFreeSurface3DPts(
                                            free_surface_elevation_sampled_,
                                            time_index, junk),
                          triangles |-> CreateFreeSurfaceTriangles(Len(time_index))])

IrregularWavesSetUpWaveMesh ==
    /\ mode = "Irregular"
    /\ stage # "crashed"
    /\ \E u \in Undefined :
         LET r == SetUpWaveMesh(u.junk, u.benign)
         IN  /\ result' = r
             /\ stage' = IF r.st = "crashed" THEN "crashed" ELSE stage
    /\ UNCHANGED <<mode, num_bodies_, wave_info_, regularVars, irregularVars,
                   eta_file, h5>>

Next ==
    \/ \E t \in NoWaveTimes : NoWaveGetForceAtTime(t)
    \/ RegularWaveAddH5Data
    \/ RegularWaveInitialize
    \/ \E t \in QueryTimes : RegularWaveGetForceAtTime(t)
    \/ IrregularWavesAddH5Data
    \/ \E t \in QueryTimes : IrregularWavesGetForceAtTime(t)
    \/ IrregularWavesGetSpectrum
    \/ IrregularWavesSetUpWaveMesh

Spec == Init /\ [][Next]_vars

\* one provider class at a time
NextNoWave == \E t \in NoWaveTimes : NoWaveGetForceAtTime(t)

NextRegular ==
    \/ RegularWaveAddH5Data
    \/ RegularWaveInitialize
    \/ \E t \in QueryTimes : RegularWaveGetForceAtTime(t)

NextIrregular ==
    \/ IrregularWavesAddH5Data
    \/ \E t \in QueryTimes : IrregularWavesGetForceAtTime(t)
    \/ IrregularWavesGetSpectrum
    \/ IrregularWavesSetUpWaveMesh

InitNoWaveOnly == Init /\ mode = "NoWave"
InitRegularOnly == Init /\ mode = "Regular"
InitIrregularOnly == Init /\ mode = "Irregular"

SpecNoWave == InitNoWaveOnly /\ [][NextNoWave]_vars
SpecRegular == InitRegularOnly /\ [][NextRegular]_vars
SpecIrregular == InitIrregularOnly /\ [][NextIrregular]_vars

---------------------------------------------------------------------------
(* Properties                                                              *)

\* the last operation was IrregularWaves::GetForceAtTime
IrregularCalled == mode = "Irregular" /\ result.op = "GetForceAtTime"

\* the lagged time t - tau_j of body b (1-based b and j)
Lag(b, j, t) == RSub(R(t), ex_irf_time_sampled_[b][j])

\* linear interpolation of the history between samples i and i + 1 (1-based)
InterpolatedEta(i, x) ==
    LET t1 == free_surface_time_sampled_[i]
        t2 == free_surface_time_sampled_[i + 1]
        w1 == RDiv(RSub(t2, x), RSub(t2, t1))
        w2 == RSub(R(1), w1)
    IN  RAdd(RMul(w1, free_surface_elevation_sampled_[i]),
             RMul(w2, free_surface_elevation_sampled_[i + 1]))

(* C1: in the Irregular variant, when a lagged time t - tau_j equals a     *)
(* history sample time, the elevation used for that term is the elevation  *)
(* stored at that sample; with a single impulse-response sample the        *)
(* convolution then returns v * eta(t - tau_0) * w.                        *)
C1_ExactMatchUsesElevation ==
    IrregularCalled =>
        \A b \in 1..Len(result.eta_val) :
            \A i \in 1..Len(free_surface_time_sampled_) :
                /\ \A j \in 1..Len(result.eta_val[b]) :
                       free_surface_time_sampled_[i] = Lag(b, j, result.t)
                           => result.eta_val[b][j] = free_surface_elevation_sampled_[i]
                /\ (/\ result.st = "ok"
                    /\ Len(ex_irf_time_sampled_[b]) = 1
                    /\ free_surface_time_sampled_[i] = Lag(b, 1, result.t))
                       => \A d \in 1..NumDofs :
                              result.f[NumDofs * (b - 1) + d] =
                                  RMul(RMul(ex_irf_sampled_[b][d][1],
                                            free_surface_elevation_sampled_[i]),
                                       ex_irf_width_sampled_[b][1])

(* C2: in the Irregular variant, for a lagged time strictly between two    *)
(* adjacent history samples, the term added to the force is                *)
(* IRF[dof, j] * (w1 * eta1 + w2 * eta2) * width_j.                        *)
C2_InteriorUsesInterpolation ==
    IrregularCalled =>
        \A b \in 1..Len(result.eta_val) :
            \A j \in 1..Len(result.eta_val[b]) :
                \A i \in 1..(Len(free_surface_time_sampled_) - 1) :
                    (/\ RLt(free_surface_time_sampled_[i], Lag(b, j, result.t))
                     /\ RLt(Lag(b, j, result.t), free_surface_time_sampled_[i + 1]))
                        => \A d \in 1..NumDofs :
                               RMul(RMul(ex_irf_sampled_[b][d][j], result.eta_val[b][j]),
                                    ex_irf_width_sampled_[b][j])
                               = RMul(RMul(ex_irf_sampled_[b][d][j],
                                           InterpolatedEta(i, Lag(b, j, result.t))),
                                      ex_irf_width_sampled_[b][j])

(* C3: in the Regular variant, GetForceAtTime(t) sets slot 6b + d, for     *)
(* every body b and DOF d, to magnitude[6b+d] * amplitude *                *)
(* cos(omega * t + phase[6b+d]), with the magnitude and phase Initialize   *)
(* computed for that body and DOF.                                         *)
C3_RegularForcePerBodyPhase ==
    (mode = "Regular" /\ result.op = "GetForceAtTime") =>
        /\ Len(result.f) = NumDofs * num_bodies_
        /\ \A b \in Bodies : \A d \in Dofs :
               At(result.f, NumDofs * b + d) =
                   RMul(RMul(At(excitation_force_mag_, NumDofs * b + d),
                             regular_wave_amplitude_),
                        Cos(RAdd(RMul(regular_wave_omega_, R(result.t)),
                                 At(excitation_force_phase_, NumDofs * b + d))))

\* the (time, elevation) pairs of the elevation file, in file order
FileTimes == [i \in 1..Len(eta_file.lines) |-> ParseLine(eta_file.lines[i]).time]
FileEtas == [i \in 1..Len(eta_file.lines) |-> ParseLine(eta_file.lines[i]).eta]

AttachedFromFile ==
    mode = "Irregular" /\ stage = "ready" /\ params.eta_file_path_ # ""

(* C4: after initialization from an elevation file, the history the        *)
(* convolution queries (free_surface_time_sampled_ with                    *)
(* free_surface_elevation_sampled_) is exactly the (time, elevation) pairs *)
(* of the file, in file order, both sequences of equal length.             *)
C4_FileHistoryIsQueried ==
    AttachedFromFile =>
        /\ free_surface_time_sampled_ = FileTimes
        /\ free_surface_elevation_sampled_ = FileEtas
        /\ Len(free_surface_time_sampled_) = Len(free_surface_elevation_sampled_)

(* The provider's free-surface history times: the vector the convolution   *)
(* reads, or, when data attach filled only time_data_, the times read from *)
(* the elevation file.                                                     *)
HistoryTimes ==
    IF free_surface_time_sampled_ # << >> THEN free_surface_time_sampled_ ELSE time_data_

\* some lag of some body lies outside [first history time, last history time]
SomeLagOutside(t) ==
    /\ HistoryTimes # << >>
    /\ \E b \in 1..num_bodies_ : \E j \in 1..Len(ex_irf_time_sampled_[b]) :
           \/ RLt(Lag(b, j, t), HistoryTimes[1])
           \/ RLt(HistoryTimes[Len(HistoryTimes)], Lag(b, j, t))

(* C5: in the Irregular variant, if any lagged time t - tau_j of any body  *)
(* lies outside the history's time window, GetForceAtTime(t) fails with an *)
(* error and returns no force vector.                                      *)
C5_OutOfWindowFails ==
    (IrregularCalled /\ SomeLagOutside(result.t)) =>
        (result.st = "error" /\ result.f = << >>)

Synthesized ==
    /\ mode = "Irregular"
    /\ stage = "ready"
    /\ params.eta_file_path_ = ""
    /\ params.wave_height_ # R(0)
    /\ params.wave_period_ # R(0)
    /\ RLt(R(0), params.simulation_dt_)

\* the history's window contains every lag of every body at time t
WindowCovers(t) ==
    /\ free_surface_time_sampled_ # << >>
    /\ \A b \in 1..num_bodies_ : \A j \in 1..Len(ex_irf_time_sampled_[b]) :
           /\ RLe(free_surface_time_sampled_[1], Lag(b, j, t))
           /\ RLe(Lag(b, j, t), free_surface_time_sampled_[Len(free_surface_time_sampled_)])

(* C6: a synthesized history's window contains t - tau_j for every         *)
(* simulation time t in [0, simulation duration] and every lag of every    *)
(* body, so no GetForceAtTime(t) with such t fails with the out-of-window  *)
(* error.                                                                  *)
C6_SynthesizedWindowCovers ==
    Synthesized =>
        /\ \A t \in QueryTimes : RLe(R(t), params.simulation_duration_) => WindowCovers(t)
        /\ (result.op = "GetForceAtTime" /\ RLe(R(result.t), params.simulation_duration_))
               => result.st # "error"

\* the gaps between adjacent elements of a grid
Gaps(grid) == { RSub(grid[i + 1], grid[i]) : i \in 1..(Len(grid) - 1) }

(* C7: ResampleIRF(dt), dt > 0, yields for every body a time grid whose    *)
(* first element is the original first time t0, whose last element is the  *)
(* original last time t1, and whose adjacent elements are all one step     *)
(* apart; where (t1 - t0) / dt is an integer that step is dt.              *)
C7_ResampledGrid ==
    (mode = "Irregular" /\ wave_info_ # << >> /\ RLt(R(0), params.simulation_dt_)) =>
        \A b \in 1..num_bodies_ :
            LET old  == wave_info_[b].excitation_irf_time
                new  == ex_irf_time_sampled_[b]
                span == RSub(old[Len(old)], old[1])
            IN  /\ new # << >>
                /\ new[1] = old[1]
                /\ new[Len(new)] = old[Len(old)]
                /\ Cardinality(Gaps(new)) <= 1
                /\ RDiv(span, params.simulation_dt_)[2] = 1
                       => Gaps(new) \subseteq {params.simulation_dt_}

(* C8: after data attach returns without error the Irregular provider is   *)
(* ready in every configuration: a free-surface history of at least two    *)
(* samples exists for GetForceAtTime to bracket its queries.               *)
C8_AttachLeavesHistory ==
    (mode = "Irregular" /\ stage = "ready") =>
        /\ Len(free_surface_time_sampled_) >= 2
        /\ Len(free_surface_elevation_sampled_) = Len(free_surface_time_sampled_)

(* C9: IrregularWaves::GetForceAtTime (every step of a ready provider;     *)
(* stated here for a history of at least two samples) leaves the           *)
(* impulse-response matrices, time grids, widths and the free-surface      *)
(* history unchanged, and a call with the time of the call before it       *)
(* returns what that call returned.                                        *)
C9_ForceCallIsPure ==
    [][(mode = "Irregular" /\ stage = "ready" /\ Len(free_surface_time_sampled_) >= 2) =>
           /\ UNCHANGED <<ex_irf_sampled_, ex_irf_time_sampled_, ex_irf_width_sampled_,
                          free_surface_time_sampled_, free_surface_elevation_sampled_>>
           /\ (/\ result.op = "GetForceAtTime"
               /\ result'.op = "GetForceAtTime"
               /\ result.t = result'.t)
                  => (result'.st = result.st /\ result'.f = result.f)]_vars

(* C10: NoWave::GetForceAtTime(t) returns, for every t and every body      *)
(* count n >= 0, a vector of exactly 6 n zeros, and changes no state.      *)
C10_NoWaveZeroForce ==
    [][mode = "NoWave" =>
           /\ result'.op = "GetForceAtTime"
           /\ result'.st = "ok"
           /\ Len(result'.f) = 6 * num_bodies_
           /\ \A i \in 1..Len(result'.f) : result'.f[i] = R(0)
           /\ UNCHANGED <<mode, num_bodies_, wave_info_, stage>>]_vars

\* a NoWave provider of two bodies has returned its 12 zeros
C10_Witness ==
    /\ mode = "NoWave"
    /\ num_bodies_ = 2
    /\ result.op = "GetForceAtTime"
    /\ result.f = [i \in 1..12 |-> R(0)]

---------------------------------------------------------------------------
(* What does hold of the convolution on a history it can bracket.          *)

\* at least two samples, strictly ascending, one elevation per time
Bracketable ==
    /\ Len(free_surface_time_sampled_) >= 2
    /\ Len(free_surface_elevation_sampled_) = Len(free_surface_time_sampled_)
    /\ \A i \in 1..(Len(free_surface_time_sampled_) - 1) :
           RLt(free_surface_time_sampled_[i], free_surface_time_sampled_[i + 1])

\* on such a history a lag outside the window does end the call with a throw
OutOfWindowFailsWhenBracketable ==
    (IrregularCalled /\ Bracketable /\ SomeLagOutside(result.t)) =>
        (result.st = "error" /\ result.f = << >>)

\* a synthesized history of at least two samples covers [0, simulation duration]
WindowCoversWhenBracketable ==
    (Synthesized /\ Bracketable) =>
        /\ \A t \in QueryTimes : RLe(R(t), params.simulation_duration_) => WindowCovers(t)
        /\ (result.op = "GetForceAtTime" /\ RLe(R(result.t), params.simulation_duration_))
               => result.st = "ok"

\* the state changes of C9 alone: a force call writes no field of the provider
ForceCallWritesNothing ==
    [][(mode = "Irregular" /\ stage = "ready") =>
           UNCHANGED <<num_bodies_, wave_info_, irregularVars>>]_vars

---------------------------------------------------------------------------
(* GetSpectrum                                                             *)

\* no spectrum has been synthesized for this provider
NoSpectrumSynthesized ==
    /\ mode = "Irregular"
    /\ \/ stage = "constructed"
       \/ params.eta_file_path_ # ""
       \/ params.wave_height_ = R(0)
       \/ params.wave_period_ = R(0)

(* C11: GetSpectrum fails with an error in every state in which no         *)
(* spectrum has been synthesized (before data attach, after an attach with *)
(* zero wave height or zero peak period, after an attach that took its     *)
(* elevation from a file); it returns no value there.                      *)
C11_GetSpectrumNeedsSpectrum ==
    (NoSpectrumSynthesized /\ result.op = "GetSpectrum") =>
        (result.st = "error" /\ result.f = << >>)

\* GetSpectrum has failed on a ready provider whose elevation came from a file
C11_Witness ==
    /\ mode = "Irregular"
    /\ stage = "ready"
    /\ params.eta_file_path_ # ""
    /\ free_surface_elevation_sampled_ # << >>
    /\ result.op = "GetSpectrum"
    /\ result.st = "error"

\* ... and on one attached with zero wave height
C11_ZeroHeightReached ==
    /\ mode = "Irregular"
    /\ stage = "ready"
    /\ params.eta_file_path_ = ""
    /\ params.wave_height_ = R(0)
    /\ result.op = "GetSpectrum"

---------------------------------------------------------------------------
(* ReadEtaFromFile                                                         *)

\* the line is <time> : <elevation> and nothing else
HasForm(line) ==
    /\ Len(line) = 3
    /\ IsNum(line[1])
    /\ IsChr(line[2]) /\ line[2].chr = ":"
    /\ IsNum(line[3])

\* the lines of the elevation file that are not of that form
Offending == { i \in 1..Len(eta_file.lines) : ~HasForm(eta_file.lines[i]) }

\* data attach has run on a provider configured with an elevation file, and
\* no later call has ended the process
AttachedWithFile ==
    /\ mode = "Irregular"
    /\ wave_info_ # << >>
    /\ stage \in {"ready", "failed"}
    /\ params.eta_file_path_ # ""

(* C12: if the elevation file cannot be opened, or some line of it (an     *)
(* empty line included) is not of the form <time> : <elevation>, data      *)
(* attach ends with the read's error and the provider is not ready; the    *)
(* lines consumed are those before the first offending one.                *)
C12_MalformedFileAborts ==
    (AttachedWithFile /\ (~eta_file.exists \/ Offending # {})) =>
        /\ stage = "failed"
        /\ eta_file.exists =>
               \A i \in Offending :
                   (\A k \in Offending : i <= k) => Len(time_data_) = i - 1

\* the lines whose leading tokens "ss >> time >> delimiter >> eta" rejects
Rejected == { i \in 1..Len(eta_file.lines) : ~ParseLine(eta_file.lines[i]).ok }

(* What holds: a file that cannot be opened, or a line whose leading       *)
(* tokens are not <time> : <elevation>, aborts data attach, and no line    *)
(* after the first such line is consumed.                                  *)
RejectedLineAborts ==
    (AttachedWithFile /\ (~eta_file.exists \/ Rejected # {})) =>
        /\ stage = "failed"
        /\ Len(time_data_) < Len(eta_file.lines) \/ ~eta_file.exists
        /\ \A i \in Rejected : Len(time_data_) < i
        /\ Len(free_surface_elevation_sampled_) = Len(time_data_)

---------------------------------------------------------------------------
(* SetUpWaveMesh                                                           *)

\* SetUpWaveMesh has produced a mesh from a free surface of n >= 2 samples
MeshMade ==
    /\ mode = "Irregular"
    /\ result.op = "SetUpWaveMesh"
    /\ result.st = "ok"
    /\ result.f.n >= 2
    /\ result.f.samples = result.f.n

\* the triangles of a mesh, as a set
Triangles == { result.f.triangles[k] : k \in 1..Len(result.f.triangles) }

(* C13: for a free surface of N >= 2 time samples the mesh of              *)
(* SetUpWaveMesh has 2N points and, for every i in 0..N-2, the triangles   *)
(* {2i, 2i+1, 2i+3} and {2i, 2i+3, 2i+2}, 2(N-1) triangles in all, and     *)
(* every triangle index refers to an existing point.                       *)
C13_MeshIsLadderStrip ==
    MeshMade =>
        /\ Len(result.f.points) = 2 * result.f.n
        /\ \A i \in 0..(result.f.n - 2) :
               /\ <<2 * i, 2 * i + 1, 2 * i + 3>> \in Triangles
               /\ <<2 * i, 2 * i + 3, 2 * i + 2>> \in Triangles
        /\ Len(result.f.triangles) = 2 * (result.f.n - 1)
        /\ \A tri \in Triangles : \A c \in 1..3 : tri[c] < Len(result.f.points)

(* What holds: 2N points, the ladder's first N div 2 - 1 rungs only, and   *)
(* no index outside the points.                                            *)
MeshIsPartialLadder ==
    MeshMade =>
        /\ Len(result.f.points) = 2 * result.f.n
        /\ Len(result.f.triangles) = 2 * (result.f.n \div 2 - 1)
        /\ \A i \in 0..(result.f.n \div 2 - 2) :
               /\ <<2 * i, 2 * i + 1, 2 * i + 3>> \in Triangles
               /\ <<2 * i, 2 * i + 3, 2 * i + 2>> \in Triangles
        /\ \A tri \in Triangles : \A c \in 1..3 : tri[c] < Len(result.f.points)

---------------------------------------------------------------------------
(* The impulse-response vectors after data attach                          *)

\* half the gap from sample i of a grid to its neighbour at i + step, if any
HalfGap(grid, i, step) ==
    IF i + step \in 1..Len(grid)
    THEN RHalf(RAbs(RSub(grid[i + step], grid[i])))
    ELSE R(0)

\* the grid is ascending
Ascending(grid) == \A i \in 1..(Len(grid) - 1) : RLt(grid[i], grid[i + 1])

\* data attach has returned
Attached == mode = "Irregular" /\ stage = "ready"

(* C14: after data attach, with or without resampling, every body's        *)
(* impulse-response matrix has 6 rows and as many columns as its time grid *)
(* has entries, and its width vector has that length and holds the widths  *)
(* of that final grid.                                                     *)
C14_IrfVectorsConsistent ==
    Attached =>
        /\ Len(ex_irf_sampled_) = num_bodies_
        /\ Len(ex_irf_time_sampled_) = num_bodies_
        /\ Len(ex_irf_width_sampled_) = num_bodies_
        /\ \A b \in 1..num_bodies_ :
               LET grid == ex_irf_time_sampled_[b]
               IN  /\ Len(ex_irf_sampled_[b]) = 6
                   /\ \A d \in 1..6 : Len(ex_irf_sampled_[b][d]) = Len(grid)
                   /\ Len(ex_irf_width_sampled_[b]) = Len(grid)
                   /\ \A i \in 1..Len(grid) :
                          ex_irf_width_sampled_[b][i] =
                              RAdd(HalfGap(grid, i, 1), HalfGap(grid, i, -1))

\* two bodies attached and resampled onto grids shorter than the native ones
C14_Witness ==
    /\ Attached
    /\ num_bodies_ = 2
    /\ RLt(R(0), params.simulation_dt_)
    /\ \A b \in 1..2 :
           /\ Len(ex_irf_time_sampled_[b]) < Len(wave_info_[b].excitation_irf_time)
           /\ Len(ex_irf_time_sampled_[b]) >= 2

(* C15: for every ascending time grid t[0..n-1] CalculateWidthIRF sets     *)
(* width[i] to half the gap to the next sample plus half the gap to the    *)
(* previous one, a missing neighbour counting zero; the widths sum to      *)
(* t[n-1] - t[0], and a one-sample grid gets width 0.                      *)
C15_TrapezoidWidths ==
    mode = "Irregular" =>
        \A b \in 1..Len(ex_irf_time_sampled_) :
            LET grid  == ex_irf_time_sampled_[b]
                width == ex_irf_width_sampled_[b]
            IN  (grid # << >> /\ Ascending(grid)) =>
                    /\ Len(width) = Len(grid)
                    /\ \A i \in 1..Len(grid) :
                           width[i] = RAdd(HalfGap(grid, i, 1), HalfGap(grid, i, -1))
                    /\ RSum(width) = RSub(grid[Len(grid)], grid[1])
                    /\ Len(grid) = 1 => width = <<R(0)>>

\* the unevenly sampled grid -1, 0, 2, 3 has been given its widths
C15_Witness ==
    /\ mode = "Irregular"
    /\ stage = "ready"
    /\ ex_irf_time_sampled_ = << Vec(<<-1, 0, 2, 3>>) >>
    /\ ex_irf_width_sampled_ = << <<Rat(1, 2), Rat(3, 2), Rat(3, 2), Rat(1, 2)>> >>

\* a one-sample grid has been given its width
C15_OneSampleReached ==
    /\ mode = "Irregular"
    /\ stage = "ready"
    /\ \E b \in 1..num_bodies_ : Len(ex_irf_time_sampled_[b]) = 1

---------------------------------------------------------------------------
(* The history cursor                                                      *)

\* lag j (1-based) of body b (1-based) at time t lies inside the window
LagInWindow(b, j, t) ==
    /\ RLe(free_surface_time_sampled_[1], Lag(b, j, t))
    /\ RLe(Lag(b, j, t), free_surface_time_sampled_[Len(free_surface_time_sampled_)])

\* the lags whose samples a convolution of body b at time t reads
LagsRead(b, t) ==
    { j \in 1..Len(ex_irf_time_sampled_[b]) : \A k \in 1..j : LagInWindow(b, k, t) }

\* a force call was made on a strictly ascending history of at least two samples
CalledOnBracketable ==
    /\ IrregularCalled
    /\ Bracketable
    /\ \A b \in 1..num_bodies_ : Ascending(ex_irf_time_sampled_[b])

(* C16: in a convolution over an ascending impulse-response grid and a     *)
(* strictly ascending history of at least two samples, the cursor idx      *)
(* satisfies 0 <= idx and idx + 1 <= last index whenever a sample is read, *)
(* and time[idx] <= t - tau_j <= time[idx + 1] for every lag read; no      *)
(* read leaves the history and the call fails only for a lag outside the   *)
(* window, never with 'wrong tau value'.                                   *)
C16_CursorBrackets ==
    CalledOnBracketable =>
        /\ result.st # "crashed"
        /\ result.st = "error" => SomeLagOutside(result.t)
        /\ \A b \in 1..num_bodies_ : \A j \in LagsRead(b, result.t) :
               LET idx == CursorAt(b - 1, R(result.t), j - 1, R(0))
               IN  /\ 0 <= idx
                   /\ idx + 1 <= Len(free_surface_time_sampled_) - 1
                   /\ RLe(At(free_surface_time_sampled_, idx), Lag(b, j, result.t))
                   /\ RLe(Lag(b, j, result.t), At(free_surface_time_sampled_, idx + 1))
                   /\ ~EtaVal(idx, Lag(b, j, result.t), R(0)).throw

\* a call has returned after its cursor walked back by at least one sample
C16_Witness ==
    /\ CalledOnBracketable
    /\ result.st = "ok"
    /\ \E b \in 1..num_bodies_ :
           /\ LagsRead(b, result.t) = 1..Len(ex_irf_time_sampled_[b])
           /\ CursorAt(b - 1, R(result.t), Len(ex_irf_time_sampled_[b]) - 1, R(0))
                  < CursorAt(b - 1, R(result.t), 0, R(0))

\* a call whose first lag is the last history time has returned
C16_FirstLagAtWindowEnd ==
    /\ CalledOnBracketable
    /\ result.st = "ok"
    /\ \E b \in 1..num_bodies_ :
           Lag(b, 1, result.t) = free_surface_time_sampled_[Len(free_surface_time_sampled_)]

---------------------------------------------------------------------------
(* RegularWave::Initialize                                                 *)

\* Initialize has run (to its end, or into a read that ended the process)
Initialized == mode = "Regular" /\ stage \in {"ready", "crashed"}

\* the number of frequency bins and the last table frequency
NumBins == Len(wave_info_[1].freq_list)
LastFrequency == wave_info_[1].freq_list[NumBins]

\* the floor bin of the configured omega: floor(omega / delta - 1)
FloorBin ==
    RFloor(RSub(RDiv(regular_wave_omega_, RDiv(LastFrequency, R(NumBins))), R(1)))

(* C17: for every configured omega with 0 < omega <= last table frequency  *)
(* and a table of N bins, the two bins Initialize reads for the magnitude  *)
(* and the phase, floor(omega / delta - 1) and the next, lie in 0..N-1,    *)
(* delta = last frequency / N: no read before the first or past the last   *)
(* bin.                                                                    *)
C17_BinsInRange ==
    (/\ Initialized
     /\ RLt(R(0), regular_wave_omega_)
     /\ RLe(regular_wave_omega_, LastFrequency)) =>
        /\ FloorBin \in 0..(NumBins - 1)
        /\ FloorBin + 1 \in 0..(NumBins - 1)
        /\ stage # "crashed"

(* What holds: the reads stay inside the table for                         *)
(* delta <= omega < last frequency.                                        *)
BinsInRangeInside ==
    (/\ Initialized
     /\ RLe(RDiv(LastFrequency, R(NumBins)), regular_wave_omega_)
     /\ RLt(regular_wave_omega_, LastFrequency)) =>
        /\ FloorBin \in 0..(NumBins - 1)
        /\ FloorBin + 1 \in 0..(NumBins - 1)
        /\ stage # "crashed"

---------------------------------------------------------------------------
(* The ramp                                                                *)

\* data attach has synthesized an elevation with a positive ramp duration
RampConfigured ==
    /\ mode = "Irregular"
    /\ wave_info_ # << >>
    /\ params.eta_file_path_ = ""
    /\ params.wave_height_ # R(0)
    /\ params.wave_period_ # R(0)
    /\ RLt(R(0), params.simulation_dt_)
    /\ RLt(R(0), params.ramp_duration_)

\* floor(ramp_duration / dt) + 1
RampSteps == RFloor(RDiv(params.ramp_duration_, params.simulation_dt_)) + 1

\* the elevation series before the ramp
UnrampedElevation ==
    LET support == IrfSupport(ex_irf_time_sampled_, Len(ex_irf_time_sampled_))
        steps   == RFloor(RDiv(params.simulation_duration_, params.simulation_dt_)) + 1
    IN  FreeSurfaceElevation(
            LinSpaced(steps, R(0),
                      RAdd(params.simulation_duration_,
                           RMul(R(2), RSub(support[2], support[1])))),
            params)

\* the factors a ramp of k steps may give its sample i (1-based)
RampFactors(i, k) ==
    IF k = 1 THEN {R(0), R(1)} ELSE {Rat(i - 1, k - 1)}

\* the elevation is the unramped one with its first RampSteps samples ramped
RampApplied ==
    /\ Len(free_surface_elevation_sampled_) = Len(UnrampedElevation)
    /\ \A i \in 1..Len(free_surface_elevation_sampled_) :
           IF i <= RampSteps
           THEN \E c \in RampFactors(i, RampSteps) :
                    free_surface_elevation_sampled_[i] = RMul(UnrampedElevation[i], c)
           ELSE free_surface_elevation_sampled_[i] = UnrampedElevation[i]

(* C18: with a positive ramp duration the ramp multiplies only the leading *)
(* floor(ramp_duration / dt) + 1 samples of the synthesized elevation by   *)
(* factors rising linearly from 0 to 1, leaves every later sample          *)
(* unchanged, and never indexes past the end of the series, whatever the   *)
(* ramp duration, simulation duration and step.                            *)
C18_RampStaysInSeries ==
    RampConfigured =>
        /\ RampSteps <= Len(free_surface_elevation_sampled_)
        /\ RampApplied

\* what holds: a ramp that fits in the series is applied as stated
RampAppliedWhenItFits ==
    (RampConfigured /\ RampSteps <= Len(free_surface_elevation_sampled_)) => RampApplied

\* a ramp of three steps has been applied to a series of four samples
RampFitsReached ==
    /\ RampConfigured
    /\ stage = "ready"
    /\ RampSteps = 3
    /\ Len(free_surface_elevation_sampled_) = 4
    /\ free_surface_elevation_sampled_[4] # R(0)

=============================================================================
